---- MODULE Spec2Model ----
(***************************************************************************)
(* PL011 UART driver (bcm2xxx_pl011_uart.rs).                              *)
(*                                                                         *)
(* Two execution contexts share one core: "main" (normal context, calling  *)
(* the driver's public operations) and "irq" (the interrupt handler        *)
(* PL011Uart::handle).  The UART hardware (RX FIFO, TX FIFO, raw interrupt *)
(* status, configuration registers) is the environment.  Every register    *)
(* access of the driver is one step; hardware steps interleave freely.     *)
(***************************************************************************)
EXTENDS Integers, Sequences, FiniteSets, TLC

\* ------------------------------------------------------------------ bounds
\* Bytes the hardware delivers into the RX FIFO in one run.
MaxArrivals == 2
\* Cap of chars_written for normal context: write_char and write_fmt are called
\* only while their characters keep chars_written within MaxWritten.
MaxWritten == 2
\* Depth of the TX FIFO of the modelled hardware.
TxDepth == 1

\* ------------------------------------------------------------------ inputs
Ctx == {"main", "irq"}
\* Words the hardware presents in DR on a read: data in bits 0..7, receive
\* error flags above: 0x0D, and 'A' with the framing error flag (0x141).
RxWords == {13, 321}
\* Characters (Unicode scalar values) given to write_char: 'A' and U+20AC.
WChars == {65, 8364}
\* Texts given to write_fmt.
WStrs == {<< >>, <<8364, 65>>}
\* MMIODescriptor start address handed to PL011Uart::new.
PhysStarts == {4096}
\* Addresses the mapping service may return (never 0).
VirtAddrs == {8192, 12288}
\* Interrupt sources the hardware raises here: RX (4) and RX timeout (6).
Sources == {4, 6}

\* --------------------------------------------------------- register fields
Pow2(n) == 2 ^ n
Bit(w, i) == (w \div Pow2(i)) % 2 = 1
\* Bit positions 0..10 set in a word (the interrupt sources of MIS/ICR/IMSC).
Bits(w) == {i \in 0..10 : Bit(w, i)}
\* register crate: FieldValue::new(mask, shift, value).value = (value & mask) << shift
FieldValue(numbits, offset, value) == (value % Pow2(numbits)) * Pow2(offset)
\* Every field has the generated constants SET (all field bits 1) and CLEAR (all 0).
FieldSET(numbits, offset) == FieldValue(numbits, offset, Pow2(numbits) - 1)
FieldCLEAR(numbits, offset) == FieldValue(numbits, offset, 0)

FR_TXFE == 7
FR_TXFF == 5
FR_RXFE == 4
MIS_RTMIS == 6
MIS_RXMIS == 4
ICR_ALL_NUMBITS == 11

IBRD_val(v) == FieldValue(16, 0, v)
FBRD_val(v) == FieldValue(6, 0, v)
LCRH_WLEN_EightBit == FieldValue(2, 5, 3)
LCRH_FEN_FifosEnabled == FieldValue(1, 4, 1)
CR_RXE_Enabled == FieldValue(1, 9, 1)
CR_TXE_Enabled == FieldValue(1, 8, 1)
CR_UARTEN_Enabled == FieldValue(1, 0, 1)
IFLS_RXIFLSEL_OneEigth == FieldValue(5, 3, 0)
IMSC_RTIM_Enabled == FieldValue(1, 6, 1)
IMSC_RXIM_Enabled == FieldValue(1, 4, 1)
ICR_ALL_CLEAR == FieldCLEAR(ICR_ALL_NUMBITS, 0)

\* Mutant of InitWrites: the last write sets UARTEN alone.
InitWrites_EnableUartOnly ==
  << <<"CR", 0>>,
     <<"ICR", ICR_ALL_CLEAR>>,
     <<"IBRD", IBRD_val(13)>>,
     <<"FBRD", FBRD_val(1)>>,
     <<"LCRH", LCRH_WLEN_EightBit + LCRH_FEN_FifosEnabled>>,
     <<"IFLS", IFLS_RXIFLSEL_OneEigth>>,
     <<"IMSC", IMSC_RXIM_Enabled + IMSC_RTIM_Enabled>>,
     <<"CR", CR_UARTEN_Enabled>> >>

\* Mutant of InitWrites: the enabling write to CR comes before the unmasking
\* write to IMSC.
InitWrites_EnableBeforeUnmask ==
  << <<"CR", 0>>,
     <<"ICR", ICR_ALL_CLEAR>>,
     <<"IBRD", IBRD_val(13)>>,
     <<"FBRD", FBRD_val(1)>>,
     <<"LCRH", LCRH_WLEN_EightBit + LCRH_FEN_FifosEnabled>>,
     <<"IFLS", IFLS_RXIFLSEL_OneEigth>>,
     <<"CR", CR_UARTEN_Enabled + CR_TXE_Enabled + CR_RXE_Enabled>>,
     <<"IMSC", IMSC_RXIM_Enabled + IMSC_RTIM_Enabled>> >>

\* The register writes of PL011UartInner::init, in program order.
InitWrites ==
  << <<"CR", 0>>,
     <<"ICR", ICR_ALL_CLEAR>>,
     <<"IBRD", IBRD_val(13)>>,
     <<"FBRD", FBRD_val(1)>>,
     <<"LCRH", LCRH_WLEN_EightBit + LCRH_FEN_FifosEnabled>>,
     <<"IFLS", IFLS_RXIFLSEL_OneEigth>>,
     <<"IMSC", IMSC_RXIM_Enabled + IMSC_RTIM_Enabled>>,
     <<"CR", CR_UARTEN_Enabled + CR_TXE_Enabled + CR_RXE_Enabled>> >>

\* `DR.get() as u8`
AsU8(w) == w % 256
\* `c as u32` for a char: a char is a scalar value of at most 0x10FFFF (21 bits),
\* so the widening cast keeps every bit of it; nothing is cut to a byte.
CharAsU32(c) == c % Pow2(21)
\* Mutant of Convert: the character is passed on as read.
Convert_Unconverted(c) == c
\* read_char_converting: carriage return becomes newline.
Convert(c) == IF c = 13 THEN 10 ELSE c

\* ------------------------------------------------------------------- state
VARIABLES
  pc,                   \* [Ctx -> label]: position of each context
  op,                   \* operation normal context is in ("none" when idle)
  ret,                  \* result of normal context's finished operation
  arg,                  \* write_fmt: characters still to be written
  cur,                  \* [Ctx -> char]: the `c` of the running inner write_char
  held,                 \* contexts inside IRQSafeNullLock::lock
  phys_mmio_start,      \* phys_mmio_descriptor.start_addr()
  registers,            \* PL011UartInner.registers: the bound base address
  chars_written,        \* PL011UartInner.chars_written
  chars_read,           \* PL011UartInner.chars_read
  virt_mmio_start_addr, \* PL011Uart.virt_mmio_start_addr (AtomicUsize)
  virt_addr,            \* init(): the local virt_addr (0 before the mapping call)
  cfgStep,              \* PL011UartInner::init: index of the next register write
  pending,              \* handle(): the local `pending` (set of MIS bits)
  hw,                   \* the write-only / read-write configuration registers
  ris,                  \* raw interrupt status: set of asserted sources
  rx,                   \* RX FIFO: words, oldest first
  tx,                   \* TX FIFO: number of bytes queued
  log,                  \* register accesses of normal context's current operation
  hlog,                 \* register accesses of the current handle() invocation
  hIn,                  \* words in the RX FIFO at handler entry, then those arriving
                        \* until the handler returns
  arrivals,             \* bytes delivered by the hardware so far
  hLate,                \* bytes that arrived while handle() was in its echo loop, that
                        \* is after its ICR write and before the FR read that ends it
  hEntry,               \* at handler entry: RX FIFO length, chars_read, chars_written
  returned,             \* characters returned by read operations so far
  drWrites,             \* writes to DR so far
  wcCalls,              \* completed console write_char calls
  mapCalls,             \* init(): calls of the mapping service by this invocation
  lastMapped            \* address returned to the last init() that returned Ok (0: none)

vars == << pc, op, ret, arg, cur, held, phys_mmio_start, registers,
           chars_written, chars_read, virt_mmio_start_addr, virt_addr, cfgStep,
           pending, hw, ris, rx, tx, log, hlog, hIn, hEntry, arrivals, returned,
           drWrites, wcCalls, mapCalls, lastMapped, hLate >>

Res(t, v) == [tag |-> t, val |-> v]
NoRes == Res("none", 0)
NoEntry == [n |-> 0, chars_read |-> 0, chars_written |-> 0]
Acc(kind, reg, val) == [kind |-> kind, base |-> registers, reg |-> reg, val |-> val]

\* Register state the boot chain may leave behind: the PL011 reset values, or a
\* UART that firmware already configured and enabled, RX and RX timeout unmasked.
HwBootStates ==
  { [CR |-> 768, IBRD |-> 0, FBRD |-> 0, LCRH |-> 0, IFLS |-> 18, IMSC |-> 0],
    [CR |-> 769, IBRD |-> 26, FBRD |-> 3, LCRH |-> 96, IFLS |-> 0, IMSC |-> 80] }

\* PL011Uart::new / PL011UartInner::new
Init ==
  /\ pc = [c \in Ctx |-> IF c = "main" THEN "idle" ELSE "none"]
  /\ op = "none"
  /\ ret = NoRes
  /\ arg = << >>
  /\ cur = [c \in Ctx |-> 0]
  /\ held = {}
  /\ phys_mmio_start \in PhysStarts
  /\ registers = phys_mmio_start
  /\ chars_written = 0
  /\ chars_read = 0
  /\ virt_mmio_start_addr = 0
  /\ virt_addr = 0
  /\ cfgStep = 0
  /\ pending = {}
  /\ hw \in HwBootStates
  /\ ris = {}
  /\ rx = << >>
  /\ tx = 0
  /\ log = << >>
  /\ hlog = << >>
  /\ hIn = << >>
  /\ hEntry = NoEntry
  /\ arrivals = 0
  /\ hLate = 0
  /\ returned = 0
  /\ drWrites = 0
  /\ wcCalls = 0
  /\ mapCalls = 0
  /\ lastMapped = 0

\* ---------------------------------------------------------------- hardware
\* FR flags, as the hardware presents them.
TXFE == tx = 0
TXFF == tx = TxDepth
RXFE == rx = << >>
FRBits == (IF TXFE THEN {FR_TXFE} ELSE {}) \cup (IF TXFF THEN {FR_TXFF} ELSE {})
            \cup (IF RXFE THEN {FR_RXFE} ELSE {})
\* MIS: raw status masked by IMSC.
MIS == ris \cap Bits(hw.IMSC)
\* tock-registers matches_all / matches_any on one-bit fields given as SET.
MatchesAll(bits, field) == field \subseteq bits
MatchesAny(bits, field) == bits \cap field # {}


RECURSIVE WordOf(_)
\* The register word with exactly the given bit positions set.
WordOf(S) == IF S = {} THEN 0
             ELSE LET i == CHOOSE x \in S : TRUE IN Pow2(i) + WordOf(S \ {i})

\* A byte arrives on the line and enters the RX FIFO.
RxArrive ==
  /\ arrivals < MaxArrivals
  /\ arrivals' = arrivals + 1
  /\ \E w \in RxWords :
       /\ rx' = Append(rx, w)
       /\ hIn' = IF pc["irq"] = "none" THEN hIn ELSE Append(hIn, w)
  /\ hLate' = IF pc["irq"] \in {"rc_check", "rc_read", "wc_spin", "wc_write"}
                THEN hLate + 1 ELSE hLate
  /\ UNCHANGED << pc, op, ret, arg, cur, held, phys_mmio_start,
                  registers, chars_written, chars_read, virt_mmio_start_addr,
                  virt_addr, cfgStep, pending, hw, ris, tx, log, hlog, hEntry,
                  returned, drWrites, wcCalls, mapCalls, lastMapped >>

\* The transmitter shifts one byte out of the TX FIFO.
TxDrain ==
  /\ tx > 0
  /\ tx' = tx - 1
  /\ UNCHANGED << arrivals, hLate, pc, op, ret, arg, cur, held, phys_mmio_start,
                  registers, chars_written, chars_read, virt_mmio_start_addr,
                  virt_addr, cfgStep, pending, hw, ris, rx, log, hlog, hIn, hEntry,
                  returned, drWrites, wcCalls, mapCalls, lastMapped >>

\* The hardware asserts an interrupt source in the raw status; the receive
\* sources only while the RX FIFO holds data.
HwRaise ==
  /\ \E s \in Sources \ ris :
       /\ s \in {MIS_RXMIS, MIS_RTMIS} => rx # << >>
       /\ ris' = ris \cup {s}
  /\ UNCHANGED << arrivals, hLate, pc, op, ret, arg, cur, held, phys_mmio_start,
                  registers, chars_written, chars_read, virt_mmio_start_addr,
                  virt_addr, cfgStep, pending, hw, rx, tx, log, hlog, hIn, hEntry,
                  returned, drWrites, wcCalls, mapCalls, lastMapped >>

\* ICR is write-1-to-clear: the sources whose bit is 1 in the written word are
\* deasserted, the others keep their state.
IcrWrite(raw, word) == raw \ Bits(word)
\* What a DR read can return: the oldest word of the RX FIFO; with the FIFO empty
\* the read returns whatever the hardware presents.
DrValues == IF rx = << >> THEN RxWords ELSE {Head(rx)}
\* The RX FIFO after a DR read, and the raw status: the receive sources are
\* deasserted once the FIFO has been read empty.
RxAfterRead == IF rx = << >> THEN rx ELSE Tail(rx)
RisAfterRead == IF RxAfterRead = << >> THEN ris \ {MIS_RXMIS, MIS_RTMIS} ELSE ris
\* The TX FIFO after a DR write: a write to a full FIFO is lost.
TxAfterWrite == IF tx < TxDepth THEN tx + 1 ELSE tx

\* ------------------------------------------------------------ scheduling
\* One core: normal context runs only while no handler invocation is active.
Running(self) == IF self = "main" THEN pc["irq"] = "none" ELSE pc["irq"] # "none"
\* IRQSafeNullLock::lock masks IRQs for the closure: no handler entry meanwhile.
IRQsMasked == held # {}
Logged(self, a) == IF self = "main" THEN log' = Append(log, a) /\ hlog' = hlog
                   ELSE hlog' = Append(hlog, a) /\ log' = log


\* Leaving the closure given to IRQSafeNullLock::lock.
Unlock(self) == held' = held \ {self}

\* ------------------------------------------------ PL011UartInner::write_char
\* Mutant of WriteCharSpin: the character is written without waiting for room.
WriteCharSpin_NoWait(self) ==
  /\ pc[self] = "wc_spin"
  /\ Running(self)
  /\ pc' = [pc EXCEPT ![self] = "wc_write"]
  /\ UNCHANGED << arrivals, hLate, op, ret, arg, cur, held, phys_mmio_start,
                  registers, chars_written, chars_read, virt_mmio_start_addr,
                  virt_addr, cfgStep, pending, hw, ris, rx, tx, log, hlog, hIn,
                  hEntry, returned, drWrites, wcCalls, mapCalls, lastMapped >>

\* `while FR.matches_all(FR::TXFF::SET) { nop }`: the loop is left with TXFF clear;
\* an iteration that finds it set changes nothing.
WriteCharSpin(self) ==
  /\ pc[self] = "wc_spin"
  /\ Running(self)
  /\ ~MatchesAll(FRBits, {FR_TXFF})
  /\ pc' = [pc EXCEPT ![self] = "wc_write"]
  /\ UNCHANGED << arrivals, hLate, op, ret, arg, cur, held, phys_mmio_start, registers,
                  chars_written, chars_read, virt_mmio_start_addr, virt_addr,
                  cfgStep, pending, hw, ris, rx, tx, log, hlog, hIn, hEntry, returned, drWrites, wcCalls, mapCalls, lastMapped >>

\* Mutant of WriteCharStore: the write to DR is not counted.
WriteCharStore_NoCount(self) ==
  /\ pc[self] = "wc_write"
  /\ Running(self)
  /\ tx' = TxAfterWrite
  /\ Logged(self, Acc("w", "DR", CharAsU32(cur[self])))
  /\ drWrites' = drWrites + 1
  /\ IF self = "main" /\ op = "write_char"
       THEN /\ pc' = [pc EXCEPT ![self] = "done"]
            /\ Unlock(self)
            /\ ret' = Res("unit", 0)
            /\ wcCalls' = wcCalls + 1
       ELSE /\ pc' = [pc EXCEPT ![self] = IF self = "main" THEN "wf_loop" ELSE "rc_check"]
            /\ UNCHANGED << held, ret, wcCalls >>
  /\ UNCHANGED << arrivals, hLate, op, arg, cur, phys_mmio_start, registers, chars_written,
                  chars_read, virt_mmio_start_addr, virt_addr, cfgStep, pending, hw,
                  ris, rx, hIn, hEntry, returned, mapCalls, lastMapped >>

\* `DR.set(c as u32); chars_written += 1`, then back in the caller: console
\* write_char returns, write_str takes the next char, handle() reads again.
WriteCharStore(self) ==
  /\ pc[self] = "wc_write"
  /\ Running(self)
  /\ tx' = TxAfterWrite
  /\ Logged(self, Acc("w", "DR", CharAsU32(cur[self])))
  /\ chars_written' = chars_written + 1
  /\ drWrites' = drWrites + 1
  /\ IF self = "main" /\ op = "write_char"
       THEN /\ pc' = [pc EXCEPT ![self] = "done"]
            /\ Unlock(self)
            /\ ret' = Res("unit", 0)
            /\ wcCalls' = wcCalls + 1
       ELSE /\ pc' = [pc EXCEPT ![self] = IF self = "main" THEN "wf_loop" ELSE "rc_check"]
            /\ UNCHANGED << held, ret, wcCalls >>
  /\ UNCHANGED << arrivals, hLate, op, arg, cur, phys_mmio_start, registers, chars_read,
                  virt_mmio_start_addr, virt_addr, cfgStep, pending, hw, ris, rx,
                  hIn, hEntry, returned, mapCalls,
                  lastMapped >>

\* ----------------------------------------- PL011UartInner::read_char_converting
\* Mutant of BlockingMode: the echo loop of handle() reads Blocking as well.
BlockingMode_AlwaysBlocking(self) == "Blocking"

\* handle() reads NonBlocking, read_char Blocking.
BlockingMode(self) == IF self = "irq" THEN "NonBlocking" ELSE "Blocking"

\* Mutant of ReadCharCheck: a non-blocking read also reports "no data" once as
\* many words were read as the FIFO held at handler entry, whatever RXFE says.
ReadCharCheck_EntryCountOnly(self) ==
  /\ pc[self] = "rc_check"
  /\ Running(self)
  /\ IF BlockingMode(self) = "NonBlocking"
          /\ (MatchesAll(FRBits, {FR_RXFE}) \/ chars_read - hEntry.chars_read >= hEntry.n)
       THEN /\ pc' = [pc EXCEPT ![self] = "h_done"]
            /\ Unlock(self)
       ELSE /\ pc' = [pc EXCEPT ![self] =
                        IF MatchesAll(FRBits, {FR_RXFE}) THEN "rc_wait" ELSE "rc_read"]
            /\ UNCHANGED held
  /\ UNCHANGED << arrivals, hLate, op, ret, arg, cur, phys_mmio_start, registers,
                  chars_written, chars_read, virt_mmio_start_addr, virt_addr,
                  cfgStep, pending, hw, ris, rx, tx, log, hlog, hIn, hEntry,
                  returned, drWrites, wcCalls, mapCalls, lastMapped >>

\* Mutant of ReadCharCheck: the blocking mode is not looked at, an empty FIFO
\* always leads into the wait loop.
ReadCharCheck_IgnoresMode(self) ==
  /\ pc[self] = "rc_check"
  /\ Running(self)
  /\ IF MatchesAll(FRBits, {FR_RXFE})
       THEN pc' = [pc EXCEPT ![self] = "rc_wait"]
       ELSE pc' = [pc EXCEPT ![self] = "rc_read"]
  /\ UNCHANGED << arrivals, hLate, op, ret, arg, cur, held, phys_mmio_start, registers,
                  chars_written, chars_read, virt_mmio_start_addr, virt_addr,
                  cfgStep, pending, hw, ris, rx, tx, log, hlog, hIn, hEntry,
                  returned, drWrites, wcCalls, mapCalls, lastMapped >>

\* `if FR.matches_all(FR::RXFE::SET)`: NonBlocking returns None (handle()'s loop
\* ends and the handler returns), Blocking goes on to wait; otherwise read.
ReadCharCheck(self) ==
  /\ pc[self] = "rc_check"
  /\ Running(self)
  /\ IF MatchesAll(FRBits, {FR_RXFE})
       THEN IF BlockingMode(self) = "NonBlocking"
              THEN /\ pc' = [pc EXCEPT ![self] = "h_done"]
                   /\ Unlock(self)
              ELSE /\ pc' = [pc EXCEPT ![self] = "rc_wait"]
                   /\ UNCHANGED held
       ELSE /\ pc' = [pc EXCEPT ![self] = "rc_read"]
            /\ UNCHANGED held
  /\ UNCHANGED << arrivals, hLate, op, ret, arg, cur, phys_mmio_start, registers,
                  chars_written, chars_read, virt_mmio_start_addr, virt_addr,
                  cfgStep, pending, hw, ris, rx, tx, log, hlog, hIn, hEntry, returned, drWrites, wcCalls, mapCalls, lastMapped >>

\* Mutant of ReadCharWait: the wait loop is left although RXFE is still set.
ReadCharWait_NoWait(self) ==
  /\ pc[self] = "rc_wait"
  /\ Running(self)
  /\ pc' = [pc EXCEPT ![self] = "rc_read"]
  /\ UNCHANGED << arrivals, hLate, op, ret, arg, cur, held, phys_mmio_start, registers,
                  chars_written, chars_read, virt_mmio_start_addr, virt_addr,
                  cfgStep, pending, hw, ris, rx, tx, log, hlog, hIn, hEntry,
                  returned, drWrites, wcCalls, mapCalls, lastMapped >>

\* `while FR.matches_all(FR::RXFE::SET) { nop }`: left once RXFE is clear.
ReadCharWait(self) ==
  /\ pc[self] = "rc_wait"
  /\ Running(self)
  /\ ~MatchesAll(FRBits, {FR_RXFE})
  /\ pc' = [pc EXCEPT ![self] = "rc_read"]
  /\ UNCHANGED << arrivals, hLate, op, ret, arg, cur, held, phys_mmio_start, registers,
                  chars_written, chars_read, virt_mmio_start_addr, virt_addr,
                  cfgStep, pending, hw, ris, rx, tx, log, hlog, hIn, hEntry, returned, drWrites, wcCalls, mapCalls, lastMapped >>

\* `let mut ret = DR.get() as u8 as char; if ret == '\r' { ret = '\n' };
\* chars_read += 1; Some(ret)`, then back in the caller: read_char unwraps and
\* returns the char, handle() passes it to write_char.
ReadCharRead(self) ==
  /\ pc[self] = "rc_read"
  /\ Running(self)
  /\ \E w \in DrValues :
       /\ Logged(self, Acc("r", "DR", w))
       /\ IF self = "main"
            THEN /\ ret' = Res("char", Convert(AsU8(w)))
                 /\ pc' = [pc EXCEPT ![self] = "done"]
                 /\ Unlock(self)
                 /\ cur' = cur
            ELSE /\ cur' = [cur EXCEPT ![self] = Convert(AsU8(w))]
                 /\ pc' = [pc EXCEPT ![self] = "wc_spin"]
                 /\ UNCHANGED << ret, held >>
  /\ rx' = RxAfterRead
  /\ ris' = RisAfterRead
  /\ chars_read' = chars_read + 1
  /\ returned' = returned + 1
  /\ UNCHANGED << arrivals, hLate, op, arg, phys_mmio_start, registers, chars_written,
                  virt_mmio_start_addr, virt_addr, cfgStep, pending, hw, tx, hIn,
                  hEntry, drWrites, wcCalls, mapCalls, lastMapped >>


\* ------------------------------------------------- DeviceDriver for PL011Uart
\* init() is entered.
CallInit ==
  /\ pc["main"] = "idle"
  /\ Running("main")
  /\ op' = "init"
  /\ pc' = [pc EXCEPT !["main"] = "init_map"]
  /\ UNCHANGED << arrivals, hLate, ret, arg, cur, held, phys_mmio_start, registers,
                  chars_written, chars_read, virt_mmio_start_addr, virt_addr,
                  cfgStep, pending, hw, ris, rx, tx, log, hlog, hIn, hEntry, returned, drWrites, wcCalls, mapCalls,
                  lastMapped >>

\* `kernel_map_mmio(..)?` succeeds: the service returns an address.
InitMapOk ==
  /\ pc["main"] = "init_map"
  /\ Running("main")
  /\ \E a \in VirtAddrs : virt_addr' = a
  /\ mapCalls' = mapCalls + 1
  /\ pc' = [pc EXCEPT !["main"] = "init_lock"]
  /\ UNCHANGED << arrivals, hLate, op, ret, arg, cur, held, phys_mmio_start, registers,
                  chars_written, chars_read, virt_mmio_start_addr, cfgStep, pending,
                  hw, ris, rx, tx, log, hlog, hIn, hEntry, returned, drWrites, wcCalls, lastMapped >>

\* Mutant of InitMapErr: a failed mapping is tried once more before giving up.
InitMapErr_RetryOnce ==
  /\ pc["main"] = "init_map"
  /\ Running("main")
  /\ mapCalls' = mapCalls + 1
  /\ IF mapCalls = 0
       THEN UNCHANGED << ret, pc >>
       ELSE /\ ret' = Res("Err", 0)
            /\ pc' = [pc EXCEPT !["main"] = "done"]
  /\ UNCHANGED << arrivals, hLate, op, arg, cur, held, phys_mmio_start, registers,
                  chars_written, chars_read, virt_mmio_start_addr, virt_addr,
                  cfgStep, pending, hw, ris, rx, tx, log, hlog, hIn, hEntry,
                  returned, drWrites, wcCalls, lastMapped >>

\* `kernel_map_mmio(..)?` fails: `?` returns the error from init().
InitMapErr ==
  /\ pc["main"] = "init_map"
  /\ Running("main")
  /\ mapCalls' = mapCalls + 1
  /\ ret' = Res("Err", 0)
  /\ pc' = [pc EXCEPT !["main"] = "done"]
  /\ UNCHANGED << arrivals, hLate, op, arg, cur, held, phys_mmio_start, registers,
                  chars_written, chars_read, virt_mmio_start_addr, virt_addr,
                  cfgStep, pending, hw, ris, rx, tx, log, hlog, hIn, hEntry, returned, drWrites, wcCalls, lastMapped >>

\* Mutant of InitRebind: the configuration runs on the handle as it is bound,
\* as for init(None).
InitRebind_KeepsBinding ==
  /\ pc["main"] = "init_lock"
  /\ Running("main")
  /\ held' = held \cup {"main"}
  /\ cfgStep' = 1
  /\ pc' = [pc EXCEPT !["main"] = "init_cfg"]
  /\ UNCHANGED << arrivals, hLate, op, ret, arg, cur, phys_mmio_start, registers,
                  chars_written, chars_read, virt_mmio_start_addr, virt_addr,
                  pending, hw, ris, rx, tx, log, hlog, hIn, hEntry, returned,
                  drWrites, wcCalls, mapCalls, lastMapped >>

\* Mutant of InitRebind: the address is published before the configuration ran.
InitRebind_PublishEarly ==
  /\ pc["main"] = "init_lock"
  /\ Running("main")
  /\ held' = held \cup {"main"}
  /\ registers' = virt_addr
  /\ virt_mmio_start_addr' = virt_addr
  /\ cfgStep' = 1
  /\ pc' = [pc EXCEPT !["main"] = "init_cfg"]
  /\ UNCHANGED << arrivals, hLate, op, ret, arg, cur, phys_mmio_start, chars_written,
                  chars_read, virt_addr, pending, hw, ris, rx, tx, log, hlog, hIn,
                  hEntry, returned, drWrites, wcCalls, mapCalls, lastMapped >>

\* `self.inner.lock(|inner| inner.init(Some(virt_addr)))`: the lock is taken and
\* PL011UartInner::init rebinds `registers` to the new address.
InitRebind ==
  /\ pc["main"] = "init_lock"
  /\ Running("main")
  /\ held' = held \cup {"main"}
  /\ registers' = virt_addr
  /\ cfgStep' = 1
  /\ pc' = [pc EXCEPT !["main"] = "init_cfg"]
  /\ UNCHANGED << arrivals, hLate, op, ret, arg, cur, phys_mmio_start, chars_written,
                  chars_read, virt_mmio_start_addr, virt_addr, pending, hw, ris, rx,
                  tx, log, hlog, hIn, hEntry, returned, drWrites,
                  wcCalls, mapCalls, lastMapped >>

\* Mutant of InitCfgWrite: IFLS is updated with modify(), which keeps the bits
\* outside the RXIFLSEL field (bits 0..2) as they are.
InitCfgWrite_ModifyIfls ==
  /\ pc["main"] = "init_cfg"
  /\ Running("main")
  /\ LET reg == InitWrites[cfgStep][1]
         val == InitWrites[cfgStep][2]
     IN /\ log' = Append(log, Acc("w", reg, val))
        /\ IF reg = "ICR"
             THEN ris' = IcrWrite(ris, val) /\ hw' = hw
             ELSE /\ hw' = [hw EXCEPT ![reg] = IF reg = "IFLS" THEN (hw.IFLS % 8) + val
                                                            ELSE val]
                  /\ ris' = ris
  /\ IF cfgStep = Len(InitWrites)
       THEN /\ pc' = [pc EXCEPT !["main"] = "init_store"]
            /\ Unlock("main")
            /\ cfgStep' = 0
       ELSE /\ cfgStep' = cfgStep + 1
            /\ UNCHANGED << pc, held >>
  /\ UNCHANGED << arrivals, hLate, op, ret, arg, cur, phys_mmio_start, registers,
                  chars_written, chars_read, virt_mmio_start_addr, virt_addr,
                  pending, rx, tx, hlog, hIn, hEntry, returned,
                  drWrites, wcCalls, mapCalls, lastMapped >>

\* One register write of PL011UartInner::init; after the last one it returns
\* Ok(()) and the lock is released.
InitCfgWrite ==
  /\ pc["main"] = "init_cfg"
  /\ Running("main")
  /\ LET reg == InitWrites[cfgStep][1]
         val == InitWrites[cfgStep][2]
     IN /\ log' = Append(log, Acc("w", reg, val))
        /\ IF reg = "ICR"
             THEN ris' = IcrWrite(ris, val) /\ hw' = hw
             ELSE hw' = [hw EXCEPT ![reg] = val] /\ ris' = ris
  /\ IF cfgStep = Len(InitWrites)
       THEN /\ pc' = [pc EXCEPT !["main"] = "init_store"]
            /\ Unlock("main")
            /\ cfgStep' = 0
       ELSE /\ cfgStep' = cfgStep + 1
            /\ UNCHANGED << pc, held >>
  /\ UNCHANGED << arrivals, hLate, op, ret, arg, cur, phys_mmio_start, registers,
                  chars_written, chars_read, virt_mmio_start_addr, virt_addr,
                  pending, rx, tx, hlog, hIn, hEntry, returned,
                  drWrites, wcCalls, mapCalls, lastMapped >>

\* `self.virt_mmio_start_addr.store(virt_addr, Relaxed); Ok(())`
InitStore ==
  /\ pc["main"] = "init_store"
  /\ Running("main")
  /\ virt_mmio_start_addr' = virt_addr
  /\ lastMapped' = virt_addr
  /\ ret' = Res("Ok", 0)
  /\ pc' = [pc EXCEPT !["main"] = "done"]
  /\ UNCHANGED << arrivals, hLate, op, arg, cur, held, phys_mmio_start, registers,
                  chars_written, chars_read, virt_addr, cfgStep, pending, hw, ris,
                  rx, tx, log, hlog, hIn, hEntry, returned,
                  drWrites, wcCalls, mapCalls >>

\* The value virt_mmio_start_addr() returns in the current state.
VirtMmioStartAddrResult ==
  IF virt_mmio_start_addr = 0 THEN Res("None", 0) ELSE Res("Some", virt_mmio_start_addr)

\* virt_mmio_start_addr(): a lock-free load.
VirtMmioStartAddr ==
  /\ pc["main"] = "idle"
  /\ Running("main")
  /\ op' = "virt_mmio_start_addr"
  /\ ret' = VirtMmioStartAddrResult
  /\ pc' = [pc EXCEPT !["main"] = "done"]
  /\ UNCHANGED << arrivals, hLate, arg, cur, held, phys_mmio_start, registers,
                  chars_written, chars_read, virt_mmio_start_addr, virt_addr,
                  cfgStep, pending, hw, ris, rx, tx, log, hlog, hIn, hEntry, returned, drWrites, wcCalls, mapCalls, lastMapped >>


\* ----------------------------------------- console::interface::Write / Read
\* write_char(c): `self.inner.lock(|inner| inner.write_char(c))` is entered.
CallWriteChar ==
  /\ pc["main"] = "idle"
  /\ Running("main")
  /\ chars_written < MaxWritten
  /\ \E c \in WChars : cur' = [cur EXCEPT !["main"] = c]
  /\ op' = "write_char"
  /\ held' = held \cup {"main"}
  /\ pc' = [pc EXCEPT !["main"] = "wc_spin"]
  /\ UNCHANGED << arrivals, hLate, ret, arg, phys_mmio_start, registers, chars_written,
                  chars_read, virt_mmio_start_addr, virt_addr, cfgStep, pending, hw,
                  ris, rx, tx, log, hlog, hIn, hEntry, returned, drWrites,
                  wcCalls, mapCalls, lastMapped >>

\* Mutant of CallWriteFmt: the text is written without taking the lock.
CallWriteFmt_NoLock ==
  /\ pc["main"] = "idle"
  /\ Running("main")
  /\ \E s \in WStrs :
       /\ chars_written + Len(s) <= MaxWritten
       /\ arg' = s
  /\ op' = "write_fmt"
  /\ pc' = [pc EXCEPT !["main"] = "wf_loop"]
  /\ UNCHANGED << arrivals, hLate, ret, cur, held, phys_mmio_start, registers,
                  chars_written, chars_read, virt_mmio_start_addr, virt_addr,
                  cfgStep, pending, hw, ris, rx, tx, log, hlog, hIn, hEntry,
                  returned, drWrites, wcCalls, mapCalls, lastMapped >>

\* write_fmt(args): the lock is taken; core::fmt hands the text to write_str.
CallWriteFmt ==
  /\ pc["main"] = "idle"
  /\ Running("main")
  /\ \E s \in WStrs :
       /\ chars_written + Len(s) <= MaxWritten
       /\ arg' = s
  /\ op' = "write_fmt"
  /\ held' = held \cup {"main"}
  /\ pc' = [pc EXCEPT !["main"] = "wf_loop"]
  /\ UNCHANGED << arrivals, hLate, ret, cur, phys_mmio_start, registers, chars_written,
                  chars_read, virt_mmio_start_addr, virt_addr, cfgStep, pending, hw,
                  ris, rx, tx, log, hlog, hIn, hEntry, returned, drWrites,
                  wcCalls, mapCalls, lastMapped >>

\* write_str: `for c in s.chars() { self.write_char(c) }; Ok(())`
WriteStrNext ==
  /\ pc["main"] = "wf_loop"
  /\ Running("main")
  /\ IF arg = << >>
       THEN /\ pc' = [pc EXCEPT !["main"] = "done"]
            /\ Unlock("main")
            /\ ret' = Res("Ok", 0)
            /\ UNCHANGED << arg, cur >>
       ELSE /\ cur' = [cur EXCEPT !["main"] = Head(arg)]
            /\ arg' = Tail(arg)
            /\ pc' = [pc EXCEPT !["main"] = "wc_spin"]
            /\ UNCHANGED << held, ret >>
  /\ UNCHANGED << arrivals, hLate, op, phys_mmio_start, registers, chars_written,
                  chars_read, virt_mmio_start_addr, virt_addr, cfgStep, pending, hw,
                  ris, rx, tx, log, hlog, hIn, hEntry, returned,
                  drWrites, wcCalls, mapCalls, lastMapped >>

\* flush() is entered: the lock is taken.
CallFlush ==
  /\ pc["main"] = "idle"
  /\ Running("main")
  /\ op' = "flush"
  /\ held' = held \cup {"main"}
  /\ pc' = [pc EXCEPT !["main"] = "fl_spin"]
  /\ UNCHANGED << arrivals, hLate, ret, arg, cur, phys_mmio_start, registers,
                  chars_written, chars_read, virt_mmio_start_addr, virt_addr,
                  cfgStep, pending, hw, ris, rx, tx, log, hlog, hIn, hEntry, returned, drWrites, wcCalls, mapCalls, lastMapped >>

\* Mutant of FlushSpin: the loop is left without looking at TXFE.
FlushSpin_NoWait ==
  /\ pc["main"] = "fl_spin"
  /\ Running("main")
  /\ pc' = [pc EXCEPT !["main"] = "done"]
  /\ Unlock("main")
  /\ ret' = Res("unit", 0)
  /\ UNCHANGED << arrivals, hLate, op, arg, cur, phys_mmio_start, registers,
                  chars_written, chars_read, virt_mmio_start_addr, virt_addr,
                  cfgStep, pending, hw, ris, rx, tx, log, hlog, hIn, hEntry,
                  returned, drWrites, wcCalls, mapCalls, lastMapped >>

\* `while !FR.matches_all(FR::TXFE::SET) { nop }`: left once TXFE is set.
FlushSpin ==
  /\ pc["main"] = "fl_spin"
  /\ Running("main")
  /\ MatchesAll(FRBits, {FR_TXFE})
  /\ pc' = [pc EXCEPT !["main"] = "done"]
  /\ Unlock("main")
  /\ ret' = Res("unit", 0)
  /\ UNCHANGED << arrivals, hLate, op, arg, cur, phys_mmio_start, registers,
                  chars_written, chars_read, virt_mmio_start_addr, virt_addr,
                  cfgStep, pending, hw, ris, rx, tx, log, hlog, hIn, hEntry, returned, drWrites, wcCalls, mapCalls, lastMapped >>

\* read_char(): the lock is taken and read_char_converting(Blocking) entered.
CallReadChar ==
  /\ pc["main"] = "idle"
  /\ Running("main")
  /\ op' = "read_char"
  /\ held' = held \cup {"main"}
  /\ pc' = [pc EXCEPT !["main"] = "rc_check"]
  /\ UNCHANGED << arrivals, hLate, ret, arg, cur, phys_mmio_start, registers,
                  chars_written, chars_read, virt_mmio_start_addr, virt_addr,
                  cfgStep, pending, hw, ris, rx, tx, log, hlog, hIn, hEntry, returned, drWrites, wcCalls, mapCalls, lastMapped >>

\* clear() is entered: the lock is taken.
CallClear ==
  /\ pc["main"] = "idle"
  /\ Running("main")
  /\ op' = "clear"
  /\ held' = held \cup {"main"}
  /\ pc' = [pc EXCEPT !["main"] = "cl_check"]
  /\ UNCHANGED << arrivals, hLate, ret, arg, cur, phys_mmio_start, registers,
                  chars_written, chars_read, virt_mmio_start_addr, virt_addr,
                  cfgStep, pending, hw, ris, rx, tx, log, hlog, hIn, hEntry, returned, drWrites, wcCalls, mapCalls, lastMapped >>

\* clear(): `while !FR.matches_all(FR::RXFE::SET)`
ClearCheck ==
  /\ pc["main"] = "cl_check"
  /\ Running("main")
  /\ IF ~MatchesAll(FRBits, {FR_RXFE})
       THEN /\ pc' = [pc EXCEPT !["main"] = "cl_read"]
            /\ UNCHANGED << held, ret >>
       ELSE /\ pc' = [pc EXCEPT !["main"] = "done"]
            /\ Unlock("main")
            /\ ret' = Res("unit", 0)
  /\ UNCHANGED << arrivals, hLate, op, arg, cur, phys_mmio_start, registers,
                  chars_written, chars_read, virt_mmio_start_addr, virt_addr,
                  cfgStep, pending, hw, ris, rx, tx, log, hlog, hIn, hEntry, returned, drWrites, wcCalls, mapCalls, lastMapped >>

\* Mutant of ClearRead: the discarded word is counted as a character read.
ClearRead_Counts ==
  /\ pc["main"] = "cl_read"
  /\ Running("main")
  /\ \E w \in DrValues : log' = Append(log, Acc("r", "DR", w))
  /\ rx' = RxAfterRead
  /\ ris' = RisAfterRead
  /\ chars_read' = chars_read + 1
  /\ pc' = [pc EXCEPT !["main"] = "cl_check"]
  /\ UNCHANGED << arrivals, hLate, op, ret, arg, cur, held, phys_mmio_start, registers,
                  chars_written, virt_mmio_start_addr, virt_addr, cfgStep, pending,
                  hw, tx, hlog, hIn, hEntry, returned, drWrites, wcCalls, mapCalls,
                  lastMapped >>

\* clear(): `inner.registers.DR.get();` the word is discarded.
ClearRead ==
  /\ pc["main"] = "cl_read"
  /\ Running("main")
  /\ \E w \in DrValues : log' = Append(log, Acc("r", "DR", w))
  /\ rx' = RxAfterRead
  /\ ris' = RisAfterRead
  /\ pc' = [pc EXCEPT !["main"] = "cl_check"]
  /\ UNCHANGED << arrivals, hLate, op, ret, arg, cur, held, phys_mmio_start, registers,
                  chars_written, chars_read, virt_mmio_start_addr, virt_addr,
                  cfgStep, pending, hw, tx, hlog, hIn, hEntry, returned, drWrites, wcCalls, mapCalls,
                  lastMapped >>

\* ------------------------------------------- console::interface::Statistics
\* chars_written(): `self.inner.lock(|inner| inner.chars_written)`
StatCharsWritten ==
  /\ pc["main"] = "idle"
  /\ Running("main")
  /\ op' = "chars_written"
  /\ ret' = Res("usize", chars_written)
  /\ pc' = [pc EXCEPT !["main"] = "done"]
  /\ UNCHANGED << arrivals, hLate, arg, cur, held, phys_mmio_start, registers,
                  chars_written, chars_read, virt_mmio_start_addr, virt_addr,
                  cfgStep, pending, hw, ris, rx, tx, log, hlog, hIn, hEntry, returned, drWrites, wcCalls, mapCalls, lastMapped >>

\* chars_read(): `self.inner.lock(|inner| inner.chars_read)`
StatCharsRead ==
  /\ pc["main"] = "idle"
  /\ Running("main")
  /\ op' = "chars_read"
  /\ ret' = Res("usize", chars_read)
  /\ pc' = [pc EXCEPT !["main"] = "done"]
  /\ UNCHANGED << arrivals, hLate, arg, cur, held, phys_mmio_start, registers,
                  chars_written, chars_read, virt_mmio_start_addr, virt_addr,
                  cfgStep, pending, hw, ris, rx, tx, log, hlog, hIn, hEntry, returned, drWrites, wcCalls, mapCalls, lastMapped >>

\* The finished operation's caller goes on: its result and locals are dropped.
Return ==
  /\ pc["main"] = "done"
  /\ Running("main")
  /\ pc' = [pc EXCEPT !["main"] = "idle"]
  /\ op' = "none"
  /\ ret' = NoRes
  /\ arg' = << >>
  /\ cur' = [cur EXCEPT !["main"] = 0]
  /\ virt_addr' = 0
  /\ mapCalls' = 0
  /\ log' = << >>
  /\ UNCHANGED << arrivals, hLate, held, phys_mmio_start, registers, chars_written,
                  chars_read, virt_mmio_start_addr, cfgStep, pending, hw, ris, rx,
                  tx, hlog, hIn, hEntry, returned, drWrites,
                  wcCalls, lastMapped >>

\* ------------------------------------------------- IRQHandler for PL011Uart
\* The IRQ manager dispatches to handle(): only with IRQs unmasked, that is while
\* normal context is outside every critical section. The lock is taken. ("done"
\* is the return point of an operation: an interrupt there is one at "idle".)
HandleEnter ==
  /\ pc["irq"] = "none"
  /\ pc["main"] # "done"
  /\ ~IRQsMasked
  /\ held' = held \cup {"irq"}
  /\ pc' = [pc EXCEPT !["irq"] = "h_mis"]
  /\ hIn' = rx
  /\ hEntry' = [n |-> Len(rx), chars_read |-> chars_read, chars_written |-> chars_written]
  /\ UNCHANGED << arrivals, hLate, op, ret, arg, cur, phys_mmio_start, registers,
                  chars_written, chars_read, virt_mmio_start_addr, virt_addr,
                  cfgStep, pending, hw, ris, rx, tx, log, hlog, returned, drWrites, wcCalls, mapCalls, lastMapped >>

\* `let pending = inner.registers.MIS.extract();`
HandleReadMis ==
  /\ pc["irq"] = "h_mis"
  /\ pending' = MIS
  /\ hlog' = Append(hlog, Acc("r", "MIS", WordOf(MIS)))
  /\ pc' = [pc EXCEPT !["irq"] = "h_icr"]
  /\ UNCHANGED << arrivals, hLate, op, ret, arg, cur, held, phys_mmio_start, registers,
                  chars_written, chars_read, virt_mmio_start_addr, virt_addr,
                  cfgStep, hw, ris, rx, tx, log, hIn, hEntry, returned, drWrites, wcCalls, mapCalls,
                  lastMapped >>

\* Mutant of HandleClearIcr: ICR is updated by read-modify-write.
HandleClearIcr_ReadModifyWrite ==
  /\ pc["irq"] = "h_icr"
  /\ hlog' = hlog \o << Acc("r", "ICR", 0), Acc("w", "ICR", ICR_ALL_CLEAR) >>
  /\ ris' = IcrWrite(ris, ICR_ALL_CLEAR)
  /\ IF MatchesAny(pending, {MIS_RXMIS, MIS_RTMIS})
       THEN /\ pc' = [pc EXCEPT !["irq"] = "rc_check"]
            /\ UNCHANGED held
       ELSE /\ pc' = [pc EXCEPT !["irq"] = "h_done"]
            /\ Unlock("irq")
  /\ UNCHANGED << arrivals, hLate, op, ret, arg, cur, phys_mmio_start, registers,
                  chars_written, chars_read, virt_mmio_start_addr, virt_addr,
                  cfgStep, pending, hw, rx, tx, log, hIn, hEntry, returned,
                  drWrites, wcCalls, mapCalls, lastMapped >>

\* Mutant of HandleClearIcr: the status check is missing, the echo loop always runs.
HandleClearIcr_NoCheck ==
  /\ pc["irq"] = "h_icr"
  /\ hlog' = Append(hlog, Acc("w", "ICR", ICR_ALL_CLEAR))
  /\ ris' = IcrWrite(ris, ICR_ALL_CLEAR)
  /\ pc' = [pc EXCEPT !["irq"] = "rc_check"]
  /\ UNCHANGED << arrivals, hLate, op, ret, arg, cur, held, phys_mmio_start, registers,
                  chars_written, chars_read, virt_mmio_start_addr, virt_addr,
                  cfgStep, pending, hw, rx, tx, log, hIn, hEntry, returned,
                  drWrites, wcCalls, mapCalls, lastMapped >>

\* `inner.registers.ICR.write(ICR::ALL::CLEAR);` then
\* `if pending.matches_any(MIS::RXMIS::SET + MIS::RTMIS::SET)`: the echo loop is
\* entered, or the closure ends and handle() returns Ok(()).
HandleClearIcr ==
  /\ pc["irq"] = "h_icr"
  /\ hlog' = Append(hlog, Acc("w", "ICR", ICR_ALL_CLEAR))
  /\ ris' = IcrWrite(ris, ICR_ALL_CLEAR)
  /\ IF MatchesAny(pending, {MIS_RXMIS, MIS_RTMIS})
       THEN /\ pc' = [pc EXCEPT !["irq"] = "rc_check"]
            /\ UNCHANGED held
       ELSE /\ pc' = [pc EXCEPT !["irq"] = "h_done"]
            /\ Unlock("irq")
  /\ UNCHANGED << arrivals, hLate, op, ret, arg, cur, phys_mmio_start, registers,
                  chars_written, chars_read, virt_mmio_start_addr, virt_addr,
                  cfgStep, pending, hw, rx, tx, log, hIn, hEntry, returned, drWrites, wcCalls, mapCalls,
                  lastMapped >>

\* The exception return: the interrupted context resumes.
HandleReturn ==
  /\ pc["irq"] = "h_done"
  /\ pc' = [pc EXCEPT !["irq"] = "none"]
  /\ pending' = {}
  /\ hlog' = << >>
  /\ hIn' = << >>
  /\ hEntry' = NoEntry
  /\ hLate' = 0
  /\ cur' = [cur EXCEPT !["irq"] = 0]
  /\ UNCHANGED << arrivals, op, ret, arg, held, phys_mmio_start, registers,
                  chars_written, chars_read, virt_mmio_start_addr, virt_addr,
                  cfgStep, hw, ris, rx, tx, log, returned,
                  drWrites, wcCalls, mapCalls, lastMapped >>

\* ------------------------------------------------------------ specification
MainStep ==
  \/ CallInit \/ InitMapOk \/ InitMapErr \/ InitRebind \/ InitCfgWrite \/ InitStore
  \/ VirtMmioStartAddr
  \/ CallWriteChar \/ CallWriteFmt \/ WriteStrNext \/ CallFlush \/ FlushSpin
  \/ CallReadChar \/ CallClear \/ ClearCheck \/ ClearRead
  \/ StatCharsWritten \/ StatCharsRead \/ Return
  \/ WriteCharSpin("main") \/ WriteCharStore("main")
  \/ ReadCharCheck("main") \/ ReadCharWait("main") \/ ReadCharRead("main")

IrqStep ==
  \/ HandleEnter \/ HandleReadMis \/ HandleClearIcr \/ HandleReturn
  \/ WriteCharSpin("irq") \/ WriteCharStore("irq")
  \/ ReadCharCheck("irq") \/ ReadCharRead("irq")

HwStep == RxArrive \/ TxDrain \/ HwRaise

Next == MainStep \/ IrqStep \/ HwStep

Spec == Init /\ [][Next]_vars


FairSpec == Spec /\ WF_vars(MainStep) /\ WF_vars(IrqStep)

\* As FairSpec, and the transmitter keeps shifting bytes out of the TX FIFO.
FairHwSpec == FairSpec /\ WF_vars(TxDrain)

\* ------------------------------------------------------------------ claims
DrReads(l) == SelectSeq(l, LAMBDA a : a.kind = "r" /\ a.reg = "DR")
DrWrites(l) == SelectSeq(l, LAMBDA a : a.kind = "w" /\ a.reg = "DR")
Vals(l) == [i \in 1..Len(l) |-> l[i].val]
\* handle() has read MIS and found the RX-data or the RX-timeout status set.
SawRxStatus == pc["irq"] \notin {"none", "h_mis"} /\ pending \cap {4, 6} # {}
\* handle() has read MIS and found neither of the two set.
SawNoRxStatus == pc["irq"] \notin {"none", "h_mis"} /\ pending \cap {4, 6} = {}

\* C1 (as claimed): the ICR write of handle() leaves no interrupt source pending
\* that was pending before it. (With a write-1-clears register this is what a
\* write with all 11 bits of ALL set to 1 achieves.)
C1_IcrWriteClearsPending ==
  [][(pc["irq"] = "h_icr" /\ pc'["irq"] # "h_icr") => ris \cap ris' = {}]_vars

\* C2: once handle() has found neither RXMIS nor RTMIS set, it reads and writes
\* no DR, takes nothing out of the RX FIFO (also a non-empty one) and leaves
\* chars_read and chars_written as they were at its entry, up to its return.
C2_NoRxStatusNoEcho ==
  SawNoRxStatus =>
    /\ DrReads(hlog) = << >>
    /\ DrWrites(hlog) = << >>
    /\ rx = hIn
    /\ chars_read = hEntry.chars_read
    /\ chars_written = hEntry.chars_written
    /\ pc["irq"] \in {"h_icr", "h_done"}

\* C2 witness: handle() has returned without an RX status while the RX FIFO holds data.
C2_Witness == SawNoRxStatus /\ pc["irq"] = "h_done" /\ rx # << >>

\* handle() has returned after an RX status, and no byte arrived during it.
EchoDone == SawRxStatus /\ pc["irq"] = "h_done" /\ Len(hIn) = hEntry.n

\* C3 (as claimed): with the RX status set and k bytes queued, handle() reads
\* those k words in order, leaves the FIFO empty, and the bytes it writes to DR
\* are the bytes received, unchanged.
C3_EchoEqualsReceived ==
  EchoDone =>
    /\ Vals(DrReads(hlog)) = hIn
    /\ rx = << >>
    /\ Vals(DrWrites(hlog)) = [i \in 1..Len(hIn) |-> hIn[i] % 256]

\* C3 (amended): as above, but each byte is echoed after the conversion of
\* read_char_converting: a received 0x0D is echoed as 0x0A, every other byte as it is.
C3_EchoConverted ==
  EchoDone =>
    /\ Vals(DrReads(hlog)) = hIn
    /\ rx = << >>
    /\ Vals(DrWrites(hlog)) =
         [i \in 1..Len(hIn) |-> IF hIn[i] % 256 = 13 THEN 10 ELSE hIn[i] % 256]
    /\ chars_read = hEntry.chars_read + Len(hIn)
    /\ chars_written = hEntry.chars_written + Len(hIn)

\* C3 witness: two bytes were queued, one of them 0x0D, and have been echoed.
C3_Witness ==
  /\ EchoDone
  /\ hEntry.n = 2
  /\ \E i \in 1..Len(hIn) : hIn[i] = 13
  /\ Len(DrWrites(hlog)) = 2


\* C4: virt_mmio_start_addr() answers None in every state before an init() has
\* completed, the calls in progress included, and from the completion of a
\* successful init() on it answers Some(a), a the address the mapping service
\* returned to the last init() that completed.
C4_VirtAddrQuery ==
  /\ VirtMmioStartAddrResult =
       (IF lastMapped = 0 THEN [tag |-> "None", val |-> 0]
                          ELSE [tag |-> "Some", val |-> lastMapped])
  /\ (pc["main"] = "done" /\ op = "init" /\ ret.tag = "Ok") =>
       (virt_addr \in VirtAddrs /\ virt_mmio_start_addr = virt_addr)
  /\ (pc["main"] = "done" /\ op = "virt_mmio_start_addr") =>
       ret = (IF lastMapped = 0 THEN [tag |-> "None", val |-> 0]
                                ELSE [tag |-> "Some", val |-> lastMapped])

\* C4 witness: a query made after a successful init(), to which the mapping
\* service returned 12288 and which configured the UART, has answered.
C4_Witness ==
  /\ pc["main"] = "done"
  /\ op = "virt_mmio_start_addr"
  /\ ret.tag = "Some"
  /\ registers = 12288
  /\ hw.IMSC = 80

\* The init() in progress or just finished has been refused by the mapping service.
InitFailed == pc["main"] = "done" /\ op = "init" /\ ret.tag = "Err"

\* C5: when the mapping service fails, init() returns the error in that same
\* step, having called the service once and accessed no register; the binding
\* of the Inner Engine, the published address, the counters and the hardware
\* are what they were (at bring-up: bound to the physical address, published 0).
C5_MapFailureChangesNothing ==
  /\ [][(pc["main"] = "init_map" /\ pc'["main"] = "done" /\ ret'.tag = "Err") =>
          /\ UNCHANGED << registers, virt_mmio_start_addr, chars_written,
                          chars_read, hw, ris, rx, tx, held, lastMapped >>
          /\ mapCalls' = 1]_vars
  /\ [][(pc["main"] = "init_map" /\ pc'["main"] # "init_map") =>
          (mapCalls = 0 /\ mapCalls' = 1)]_vars
  /\ [](InitFailed =>
          /\ log = << >>
          /\ mapCalls = 1
          /\ lastMapped = 0 =>
               (registers = phys_mmio_start /\ VirtMmioStartAddrResult.tag = "None"))

\* C5 witness: the first init() of a run has returned the mapping error.
C5_Witness == InitFailed /\ lastMapped = 0 /\ registers = phys_mmio_start


\* C6: a non-blocking read made with the RX FIFO empty ends at once with None
\* (handle()'s loop is over): it reads no DR, leaves chars_read and the FIFO alone.
C6_NonBlockingEmptyIsNone ==
  [][(pc["irq"] = "rc_check" /\ rx = << >> /\ pc'["irq"] # "rc_check") =>
       /\ pc'["irq"] = "h_done"
       /\ hlog' = hlog
       /\ chars_read' = chars_read
       /\ returned' = returned
       /\ rx' = rx]_vars

\* C6 witness: handle() has returned from its echo loop, the last read finding
\* the RX FIFO empty.
C6_Witness == SawRxStatus /\ pc["irq"] = "h_done" /\ rx = << >> /\ DrReads(hlog) # << >>

\* read_char() is in progress, in read_char_converting(Blocking).
InReadChar == op = "read_char" /\ pc["main"] \in {"rc_check", "rc_wait", "rc_read"}

\* C7: a blocking read_char() has neither returned nor read DR in any state in
\* which the RX FIFO is empty and it has not yet gone past the wait; it returns
\* by one DR read that takes exactly the oldest word out of the FIFO; and once
\* the FIFO holds a byte the call returns.
C7_BlockingRead ==
  /\ [](InReadChar => (log = << >> /\ (pc["main"] = "rc_read" => rx # << >>)))
  /\ [][(InReadChar /\ pc'["main"] = "done") =>
          /\ rx # << >>
          /\ rx' = Tail(rx)
          /\ Vals(log') = << Head(rx) >>
          /\ log'[1].kind = "r" /\ log'[1].reg = "DR"
          /\ ret'.tag = "char"]_vars
  /\ (InReadChar /\ rx # << >>) ~> (op = "read_char" /\ pc["main"] = "done")

\* C7 witness: a read_char() that found the FIFO empty is waiting, and a byte
\* has now arrived.
C7_Witness == op = "read_char" /\ pc["main"] = "rc_wait" /\ rx # << >>


\* A read_char_converting of context c returns a character in this step.
ReturnsChar(c) == pc[c] = "rc_read" /\ pc'[c] # "rc_read"

\* C8: a read that returns a character returns the low byte of the word read
\* from DR, 0x0D replaced by 0x0A, and adds exactly 1 to chars_read; no other
\* step (of clear(), handle(), init() or any other operation) changes chars_read,
\* so chars_read is the number of characters returned and never decreases.
C8_CharsReadCountsReturned ==
  /\ [](chars_read = returned)
  /\ [][chars_read' >= chars_read]_vars
  /\ [][(ReturnsChar("main") \/ ReturnsChar("irq")) =>
          /\ rx # << >>
          /\ chars_read' = chars_read + 1
          /\ LET b == Head(rx) % 256
                 c == IF b = 13 THEN 10 ELSE b
             IN IF ReturnsChar("main") THEN ret' = [tag |-> "char", val |-> c]
                                       ELSE cur'["irq"] = c]_vars
  /\ [][~(ReturnsChar("main") \/ ReturnsChar("irq")) => chars_read' = chars_read]_vars

\* C8 witness: after a successful init(), a second character has been returned,
\* read as 0x0D and returned as 0x0A.
C8_Witness ==
  /\ op = "read_char" /\ pc["main"] = "done"
  /\ Vals(log) = << 13 >>
  /\ ret.val = 10
  /\ chars_read = 2
  /\ lastMapped # 0

\* C9: chars_written is the number of writes to DR made so far, by write_char,
\* write_fmt and the handler's echo alike, init() included in the run or not;
\* so when all of them were made by N completed write_char calls it is N.
C9_CharsWrittenCountsDrWrites ==
  /\ chars_written = drWrites
  /\ wcCalls <= chars_written
  /\ (pc["main"] \in {"idle", "done"} /\ drWrites = wcCalls) => chars_written = wcCalls

\* C9 witness: two write_char calls have completed, nothing else wrote, and an
\* init() run after them has returned Ok.
C9_Witness ==
  /\ op = "init" /\ pc["main"] = "done" /\ ret.tag = "Ok"
  /\ wcCalls = 2
  /\ drWrites = 2
  /\ chars_written = 2

\* C10 (as claimed): every value stored to DR, by write_char, write_fmt or the
\* echo, lies in 0..255.
C10_DrWriteIsByte ==
  /\ \A i \in 1..Len(log) :
       (log[i].kind = "w" /\ log[i].reg = "DR") => log[i].val \in 0..255
  /\ \A i \in 1..Len(hlog) :
       (hlog[i].kind = "w" /\ hlog[i].reg = "DR") => hlog[i].val \in 0..255

\* C11: flush() leaves its wait loop only in a state with the TX FIFO empty and
\* returns in that step; from its entry to its return it accesses no register
\* but FR (no write, no DR access) and nothing is added to the TX FIFO; and with
\* a transmitter that keeps draining, every flush() returns, the TX FIFO empty.
C11_FlushWaitsForTxEmpty ==
  /\ [][(pc["main"] = "fl_spin" /\ pc'["main"] # "fl_spin") =>
          /\ tx = 0 /\ tx' = 0
          /\ pc'["main"] = "done"
          /\ ret' = [tag |-> "unit", val |-> 0]]_vars
  /\ [](op = "flush" => (log = << >> /\ (pc["main"] = "done" => tx = 0)))
  /\ [][(op = "flush" /\ op' = "flush") =>
          (hw' = hw /\ drWrites' = drWrites /\ chars_written' = chars_written
             /\ tx' <= tx)]_vars
  /\ (op = "flush" /\ pc["main"] = "fl_spin") ~>
       (op = "flush" /\ pc["main"] = "done" /\ tx = 0)

\* C11 witness: flush() is waiting while a written byte is still in the TX FIFO.
C11_Witness == op = "flush" /\ pc["main"] = "fl_spin" /\ tx > 0 /\ chars_written > 0

\* The configuration sequence of the init() in progress has made all its writes.
InitConfigured ==
  op = "init" /\ (pc["main"] = "init_store" \/ (pc["main"] = "done" /\ ret.tag = "Ok"))

AllOrNone(w) == Bits(w) \cap {0, 8, 9} \in {{}, {0, 8, 9}}
\* The driver has written CR: in the init() in progress, or in one that returned Ok.
DriverWroteCR == lastMapped # 0 \/ (op = "init" /\ log # << >>)

DirectionOk(a) ==
  /\ a.kind = "r" => a.reg \notin {"IBRD", "FBRD", "LCRH", "CR", "ICR"}
  /\ a.kind = "w" => a.reg \notin {"FR", "MIS"}

\* C14: no register access of any operation, in normal context or in handle(),
\* reads IBRD, FBRD, LCRH, CR or ICR, and none writes FR or MIS.
C14_AccessDirections ==
  /\ \A i \in 1..Len(log) : DirectionOk(log[i])
  /\ \A i \in 1..Len(hlog) : DirectionOk(hlog[i])

\* C14 witness: an init() run has made its writes, and a handle() dispatched
\* after it has read MIS, written ICR and echoed a byte.
C14_Witness ==
  /\ InitConfigured
  /\ pc["irq"] = "h_done"
  /\ DrWrites(hlog) # << >>
  /\ \E i \in 1..Len(hlog) : hlog[i].reg = "MIS" /\ hlog[i].kind = "r"
  /\ \E i \in 1..Len(hlog) : hlog[i].reg = "ICR" /\ hlog[i].kind = "w"

\* C15: during a handle() invocation every byte that was in the RX FIFO at its
\* entry or entered it since has either been read by the handler, in arrival
\* order, or is still in the FIFO (none is lost); the FR read that ends the echo
\* loop finds the FIFO empty with all of them read and echoed, those that
\* arrived after the ICR write included; so what the FIFO holds when handle()
\* returns arrived after that last FR read.
C15_LateByteIsDrained ==
  /\ [](pc["irq"] # "none" => Vals(DrReads(hlog)) \o rx = hIn)
  /\ [][(pc["irq"] = "rc_check" /\ pc'["irq"] = "h_done") =>
          /\ rx = << >>
          /\ Vals(DrReads(hlog')) = hIn
          /\ Len(hIn) >= hEntry.n + hLate
          /\ Vals(DrWrites(hlog')) =
               [i \in 1..Len(hIn) |-> IF hIn[i] % 256 = 13 THEN 10 ELSE hIn[i] % 256]]_vars
  /\ [][(pc["irq"] = "h_done" /\ pc'["irq"] = "h_done") =>
          (hlog' = hlog /\ hLate' = hLate /\ Len(rx') >= Len(rx))]_vars

\* C15 witness: handle() has returned from its echo loop having read and echoed
\* a byte that arrived after its ICR write, and nothing is left in the FIFO.
C15_Witness ==
  /\ SawRxStatus /\ pc["irq"] = "h_done"
  /\ hLate >= 1
  /\ rx = << >>
  /\ Len(DrWrites(hlog)) = hEntry.n + hLate

\* C16 (as claimed): in every state where the published address is a non-zero
\* value a, the Inner Engine is bound to a and an init() run has completed its
\* configuration with the enabling write to CR; and every register write of an
\* init() run is made through the handle rebound to that run's address.
C16_PublishedImpliesBound ==
  /\ virt_mmio_start_addr # 0 =>
       (registers = virt_mmio_start_addr /\ lastMapped # 0)
  /\ op = "init" => \A i \in 1..Len(log) : log[i].base = virt_addr

\* An init() run is between its rebind and its store of the address.
InitRebound == op = "init" /\ pc["main"] \in {"init_cfg", "init_store"}

\* C16 (amended): the published address changes only by the store that ends an
\* init() run, which finds the Inner Engine bound to the address it publishes and
\* the eight configuration writes made, the enabling write to CR last; all of
\* them went through the rebound handle. So where the published address is a
\* non-zero value a, the Inner Engine is bound to a and CR holds the enabling
\* value, except while a later init() run is between its rebind and its store.
C16_PublishAfterRebindAndConfig ==
  /\ [][virt_mmio_start_addr' # virt_mmio_start_addr =>
          /\ op = "init" /\ pc["main"] = "init_store" /\ pc'["main"] = "done"
          /\ virt_mmio_start_addr' = registers
          /\ registers = virt_addr
          /\ Len(log) = 8
          /\ log[8].reg = "CR" /\ log[8].val = 769
          /\ hw.CR = 769]_vars
  /\ [](op = "init" => \A i \in 1..Len(log) : log[i].base = virt_addr)
  /\ []((virt_mmio_start_addr # 0 /\ ~InitRebound) =>
          (registers = virt_mmio_start_addr /\ hw.CR = 769 /\ lastMapped # 0))
  /\ [](virt_mmio_start_addr = 0 => (lastMapped = 0 /\ (~InitRebound => registers = phys_mmio_start)))

\* C16 witness: an init() run has published 12288 after configuring the UART
\* through the handle rebound to 12288.
C16_Witness ==
  /\ op = "init" /\ pc["main"] = "done" /\ ret.tag = "Ok"
  /\ virt_mmio_start_addr = 12288
  /\ registers = 12288
  /\ Len(log) = 8 /\ log[1].base = 12288

\* C17: whatever register state an init() run starts in, it ends with CR=0x301,
\* IBRD=13, FBRD=1, LCRH=0x70, IFLS=0, IMSC=0x50, and no other operation changes
\* these registers: a second run starts in this state and ends in it. A run that
\* is given the address already published ends with the same published address
\* and the same binding. So two runs leave what one run leaves.
C17_ReinitSameState ==
  /\ []((lastMapped # 0 /\ ~(op = "init" /\ pc["main"] = "init_cfg")) =>
          hw = [CR |-> 769, IBRD |-> 13, FBRD |-> 1, LCRH |-> 112, IFLS |-> 0, IMSC |-> 80])
  /\ [][(op = "init" /\ pc["main"] = "init_store" /\ pc'["main"] = "done"
           /\ virt_addr = lastMapped) =>
          /\ virt_mmio_start_addr' = virt_mmio_start_addr
          /\ virt_mmio_start_addr = lastMapped
          /\ registers' = lastMapped
          /\ hw' = hw
          /\ lastMapped' = lastMapped]_vars
  /\ [][(hw' # hw) => (op = "init" /\ pc["main"] = "init_cfg")]_vars

\* C17 witness: a second init() run, given the address the first one published,
\* has made its eight writes and is about to publish.
C17_Witness ==
  /\ op = "init" /\ pc["main"] = "init_store"
  /\ lastMapped # 0 /\ virt_addr = lastMapped
  /\ Len(log) = 8
  /\ hw.CR = 769

\* C18: at most one context is inside the lock. While normal context holds it,
\* its busy-waits included, no handle() invocation is active: the handler's
\* access log stays empty and every change of a counter is normal context's own
\* register access. handle() is entered only with the lock free, so it never
\* waits for the code it interrupted, and it holds the lock until its return.
\* Every DR write made while a write_fmt call is in progress is that call's own,
\* and the call ends having written its text as one run of the DR stream.
C18_AccessSerialized ==
  /\ [](Cardinality(held) <= 1)
  /\ []("main" \in held => (pc["irq"] = "none" /\ hlog = << >>))
  /\ [](pc["irq"] \notin {"none", "h_done"} => held = {"irq"})
  /\ [][(pc["irq"] = "none" /\ pc'["irq"] # "none") => (held = {} /\ held' = {"irq"})]_vars
  /\ [][("main" \in held /\ (chars_read' # chars_read \/ chars_written' # chars_written
                               \/ drWrites' # drWrites)) =>
          (Len(log') = Len(log) + 1 /\ hlog' = hlog)]_vars
  /\ [][(op = "write_fmt" /\ pc["main"] # "done" /\ drWrites' # drWrites) =>
          /\ hlog' = hlog
          /\ Len(log') = Len(log) + 1
          /\ SubSeq(log', 1, Len(log)) = log
          /\ log'[Len(log')].kind = "w" /\ log'[Len(log')].reg = "DR"]_vars
  /\ []((op = "write_fmt" /\ pc["main"] = "done") =>
          Vals(log) \in {<< >>, << 8364, 65 >>})

\* C18 witness: a write_fmt call has written its first character and busy-waits
\* for room in the TX FIFO, the lock held, while an unmasked RX interrupt is
\* pending on data in the RX FIFO; no handler is active.
C18_Witness ==
  /\ op = "write_fmt" /\ pc["main"] = "wc_spin"
  /\ "main" \in held
  /\ tx = TxDepth
  /\ Len(log) = 1
  /\ rx # << >> /\ MIS \cap {4, 6} # {}
  /\ pc["irq"] = "none"

\* C19: whenever a context is about to store to DR (it has left the wait loop of
\* write_char), the TX FIFO has room, that is TXFF is clear; so every DR write,
\* of write_char, write_fmt or the echo, adds its byte to the TX FIFO and none
\* is lost to a full FIFO.
C19_NoWriteWhileTxFull ==
  /\ [](\A c \in Ctx : pc[c] = "wc_write" => (~TXFF /\ tx < TxDepth))
  /\ [][drWrites' # drWrites =>
          /\ ~TXFF
          /\ tx' = tx + 1
          /\ tx' <= TxDepth
          /\ drWrites' = drWrites + 1]_vars
  /\ [](tx <= TxDepth)

\* C19 witness: a write_fmt call has written its first character, found the TX
\* FIFO full, waited, and is now about to store the second one.
C19_Witness ==
  /\ op = "write_fmt" /\ pc["main"] = "wc_write"
  /\ Len(DrWrites(log)) = 1
  /\ tx < TxDepth
  /\ chars_written >= 1
  /\ arg = << >>

\* C20: with a transmitter that keeps draining the TX FIFO and the bounded
\* number of arrivals of a run, every handle() invocation reaches its return
\* with the lock released. The echo loop ends at the first FR read that finds
\* the RX FIFO empty and at no other point: an FR read that finds a byte is
\* followed by one more read and echo, so the loop makes at least one iteration
\* for every byte that was queued at entry or arrived during the loop, and
\* nothing but the end of the arrivals ends it.
C20_HandleTerminates ==
  /\ (pc["irq"] # "none") ~> (pc["irq"] = "h_done" /\ "irq" \notin held)
  /\ [](pc["irq"] = "h_done" => "irq" \notin held)
  /\ [][(pc["irq"] = "rc_check" /\ pc'["irq"] # "rc_check") =>
          IF rx = << >> THEN pc'["irq"] = "h_done" /\ "irq" \notin held'
                        ELSE pc'["irq"] = "rc_read" /\ held' = held]_vars
  /\ [][(pc["irq"] \in {"rc_read", "wc_spin", "wc_write"} /\ pc'["irq"] # pc["irq"]) =>
          pc'["irq"] = (CASE pc["irq"] = "rc_read" -> "wc_spin"
                          [] pc["irq"] = "wc_spin" -> "wc_write"
                          [] pc["irq"] = "wc_write" -> "rc_check")]_vars
  /\ []((SawRxStatus /\ pc["irq"] = "h_done") =>
          Len(DrWrites(hlog)) >= hEntry.n + hLate)

\* C20 witness: handle() is in its echo loop, a byte has arrived during the
\* loop, and the echo is waiting for the transmitter to make room.
C20_Witness ==
  /\ pc["irq"] = "wc_spin"
  /\ tx = TxDepth
  /\ hLate >= 1
  /\ "irq" \in held

====
